---- MODULE Spec2Model ----
(***************************************************************************)
(* A model of tiktok.js: the TikTokClient session/authentication           *)
(* orchestrator (src/src/client.ts) and the GestureEngine singleton with   *)
(* its configuration (src/unnamed/part_001).                               *)
(*                                                                         *)
(* Strings that the code inspects (URLs, file contents, typed text) are    *)
(* sequences of tokens, so that includes(), JSON.stringify/JSON.parse and  *)
(* per-character typing are computed rather than assumed.                  *)
(***************************************************************************)
EXTENDS Integers, Sequences, FiniteSets, TLC

(***************************************************************************)
(* Bounds of the model.                                                    *)
(***************************************************************************)
\* browsers open at the same time
MaxBrowsers == 2
\* postScheduledVideo calls that get past the precondition in one run of
\* SpecPublish
MaxPublishCalls == 1
\* Math.random() is drawn from k/RandomGrain, k < RandomGrain, and from the
\* largest value below 1
RandomGrain == 2
\* direct GestureEngine calls in one run of SpecGesture
MaxGestureCalls == 2

(***************************************************************************)
(* Configuration: part_001 lines 59-69.                                    *)
(***************************************************************************)
URLs ==
    [ base   |-> << "https://www.tiktok.com/" >>,
      login  |-> << "https://www.tiktok.com/", "login", "/phone-or-email/email" >>,
      upload |-> << "https://www.tiktok.com/", "upload" >>,
      upload_creator_center |->
          << "https://www.tiktok.com/", "tiktokstudio/upload", "?from=creator_center" >> ]

Paths == [ sessionBase |-> "./.tiktokjs_auth/sessions", cookiesFile |-> "cookies.json" ]

\* the literal 'login' of client.ts line 149
LoginSegment == << "login" >>

\* selectors of the login form, client.ts lines 140-142
SelUsername == "input[name=username]"
SelPassword == "input[type=password]"
SelSubmit   == "button[type=submit]"

\* selectors of the upload surface, client.ts lines 193-254
SelSelectVideo == "button[aria-label=Select video]"
SelProgress    == ".info-progress-num"
SelEditor      == ".public-DraftEditor-content[contenteditable=true]"
SelSchedule    == "input[name=postSchedule][value=schedule]"
SelDate        == "input.TUXTextInputCore-input[value=currentDateString]"
SelPost        == "button[type=button] .TUXButton-label:contains(Post)"
SelModal       == ".common-modal-header"

\* typeText's default typeDelay, part_001 line 37
TypeDelayMin == 50
TypeDelayMax == 150
\* scrollPage's repeating timer and its duration budget, part_001 lines 31, 33
ScrollIntervalMs == 1000
ScrollBudgetMin  == 2000
ScrollBudgetMax  == 3000
\* the scrollPage call of postScheduledVideo, client.ts line 221
PublishScrollAmount == 300
PublishScrollDelay  == [ min |-> 100, max |-> 500 ]

(***************************************************************************)
(* The inputs and the environment's answers.                               *)
(***************************************************************************)
Identities == { << "a", "b" >>, << "c" >> }
Secrets    == { << >>, << "x", "y" >> }

\* where a navigation may land: the site redirects as it pleases
SiteUrls ==
    { URLs.base,
      URLs.login,
      URLs.login \o << "?redirect_url=home" >>,
      << "https://www.tiktok.com/", "login" >> }

\* the cookie jars the site and the browser profile hand to a page: none, one
\* cookie, or two in an order
SiteJars == { << >>, << "sid" >>, << "ttwid", "sid" >> }

\* results of Math.random(): in [0, 1), as <<numerator, denominator>>
RandomDraws ==
    { << k, RandomGrain >> : k \in 0..(RandomGrain - 1) } \cup { << 999999, 1000000 >> }

(***************************************************************************)
(* Pure helpers.                                                           *)
(***************************************************************************)
\* String.prototype.includes on token sequences
includes(s, sub) ==
    \E i \in 0..(Len(s) - Len(sub)) : SubSeq(s, i + 1, i + Len(sub)) = sub

\* client.ts 25-27: sha256 hex digest, tabulated on the identities of the model
hashClientId(clientId) ==
    CASE clientId = << "a", "b" >> ->
             "fb8e20fc2e4c3f248c60c39bd652f3c1347298bb977b8b4d5903b85055620603"
      [] clientId = << "c" >> ->
             "2e7d2c03a9507ae265ecf5b5356885a53393a2029d241394997265a1a25aefc6"
      [] OTHER ->
             "e3b0c44298fc1c149afbf4c8996fb92427ae41e4649b934ca495991b7852b855"

\* client.ts 34-37
getUserSessionPath(clientId) == << Paths.sessionBase, hashClientId(clientId) >>

\* a variant of getSessionFilePath that leaves out the directory of the user
getSessionFilePathShared(clientId) == << Paths.sessionBase, Paths.cookiesFile >>

\* client.ts 44-46
getSessionFilePath(clientId) == getUserSessionPath(clientId) \o << Paths.cookiesFile >>

RECURSIVE JoinEntries(_)
JoinEntries(cs) ==
    IF cs = << >> THEN << >>
    ELSE IF Len(cs) = 1 THEN << cs[1] >>
    ELSE << cs[1], "," >> \o JoinEntries(Tail(cs))

\* JSON.stringify of an array of cookies (client.ts line 89)
JSONstringify(cs) == << "[" >> \o JoinEntries(cs) \o << "]" >>

Punctuation == { "[", "]", "," }

RECURSIVE ParseEntries(_)
ParseEntries(ts) ==
    IF ts = << >> \/ Head(ts) \in Punctuation
    THEN [ ok |-> FALSE, val |-> << >> ]
    ELSE IF Len(ts) = 1
    THEN [ ok |-> TRUE, val |-> << ts[1] >> ]
    ELSE IF ts[2] # ","
    THEN [ ok |-> FALSE, val |-> << >> ]
    ELSE LET rest == ParseEntries(SubSeq(ts, 3, Len(ts)))
         IN  [ ok |-> rest.ok, val |-> IF rest.ok THEN << ts[1] >> \o rest.val ELSE << >> ]

\* JSON.parse of a file's text (client.ts line 102); ok = FALSE is a SyntaxError
JSONparse(s) ==
    IF Len(s) < 2 \/ s[1] # "[" \/ s[Len(s)] # "]"
    THEN [ ok |-> FALSE, val |-> << >> ]
    ELSE IF Len(s) = 2
    THEN [ ok |-> TRUE, val |-> << >> ]
    ELSE ParseEntries(SubSeq(s, 2, Len(s) - 1))

\* page.setCookie(...cookies): a cookie of the same identity is replaced in
\* place, a new one is added at the end
RECURSIVE setCookie(_, _)
setCookie(jar, cs) ==
    IF cs = << >> THEN jar
    ELSE setCookie(IF \E i \in 1..Len(jar) : jar[i] = Head(cs)
                   THEN jar ELSE Append(jar, Head(cs)),
                   Tail(cs))

\* a variant of RandomDelay that scales the draw by max - min
RandomDelayExclusive(r, min, max) == ((r[1] * (max - min)) \div r[2]) + min

\* part_001 line 23: Math.floor(Math.random() * (max - min + 1)) + min
RandomDelay(r, min, max) == ((r[1] * (max - min + 1)) \div r[2]) + min

IsPrefix(s, t) == Len(s) <= Len(t) /\ SubSeq(t, 1, Len(s)) = s

(***************************************************************************)
(* State.                                                                  *)
(***************************************************************************)
VARIABLES
    \* TikTokClient fields (client.ts 9-13); 0 is null
    browser, page, headless, gestureEngine,
    \* GestureEngine.instance (part_001 line 8): the page the one engine is
    \* bound to, 0 when there is none
    GestureEngine_instance,
    \* the open browsers, each with its one page; the URL and the cookies of
    \* the client's page (a page the client has dropped is reached only through
    \* the engine, which reads neither)
    browsers, pageUrl, pageCookies,
    \* the navigation that the click on the login form's submit button started
    \* in the client's page: "none", "started" or "settled"
    navigation,
    \* the file system under sessionBase: path -> text of the file
    fs,
    \* the public operation in progress, its position, its arguments and locals
    op, pc, result, clientId, password, params, cookies,
    \* the gesture calls the operation still has to make, and the one running
    todo, gesture, selector, text, idx, typeDelay, delay, callStart,
    \* scrollPage: its arguments, the clock, the two timers, evaluate calls
    \* in flight, ticks the running call has issued
    scrollAmount, stepDelay, now, intervalAt, timeoutAt, pending, ticks,
    gestureCalls,
    \* the lines console.log wrote during the operation
    console,
    \* what the operation in progress has done to browsers and pages, in order
    trace,
    \* history: the store when the operation began, the cookies of the latest
    \* save per path, the tick counts seen per scrollPage argument list, the
    \* sum of the amounts of the scroll ticks issued
    fsAtCall, saved, seenTicks, issued

clientVars  == << browser, page, headless, gestureEngine >>
worldVars   == << GestureEngine_instance, browsers, pageUrl, pageCookies, navigation,
                  fs >>
callVars    == << op, pc, result, clientId, password, params, cookies >>
gestureVars == << todo, gesture, selector, text, idx, typeDelay, delay, callStart >>
gestureRun  == << gesture, selector, text, idx, typeDelay, delay, callStart >>
scrollVars  == << scrollAmount, stepDelay, now, intervalAt, timeoutAt, pending, ticks,
                  gestureCalls >>
scrollHistory == << seenTicks, issued >>
historyVars == << fsAtCall, saved, scrollHistory >>

vars == << clientVars, worldVars, callVars, gestureVars, scrollVars, console, trace,
           historyVars >>

\* an absent value and a present one, for the locals that may be null
Null      == [ some |-> FALSE, val |-> << >> ]
Some(v)   == [ some |-> TRUE, val |-> v ]

NoTimer == 0 - 1

Ev(act, p, sel, arg, res) ==
    [ act |-> act, page |-> p, sel |-> sel, arg |-> arg, res |-> res ]

AboutBlank == << "about:blank" >>

\* the constructor of TikTokClient with its defaults (client.ts 15-18), in a
\* process that has launched nothing and a store that holds no session
Init ==
    /\ browser = 0 /\ page = 0 /\ headless = TRUE /\ gestureEngine = 0
    /\ GestureEngine_instance = 0
    /\ browsers = << >>
    /\ pageUrl = AboutBlank /\ pageCookies = << >>
    /\ navigation = "none"
    /\ fs = << >>
    /\ op = "none" /\ pc = "idle" /\ result = "none"
    /\ clientId = << >> /\ password = << >> /\ params = "undefined" /\ cookies = Null
    /\ todo = << >> /\ gesture = "" /\ selector = "" /\ text = << >> /\ idx = 0
    /\ typeDelay = [ min |-> TypeDelayMin, max |-> TypeDelayMax ]
    /\ delay = 0 /\ callStart = 0
    /\ scrollAmount = 0 /\ stepDelay = [ min |-> 0, max |-> 0 ]
    /\ now = 0 /\ intervalAt = NoTimer /\ timeoutAt = NoTimer
    /\ pending = << >> /\ ticks = 0 /\ gestureCalls = 0
    /\ console = << >>
    /\ trace = << >>
    /\ fsAtCall = << >> /\ saved = << >> /\ seenTicks = { } /\ issued = 0

(***************************************************************************)
(* Control: one caller, one operation at a time; an operation is the       *)
(* sequence of its awaited steps. It ends in "done", where its result, its *)
(* console lines and what it did can be read; then the caller goes on.     *)
(***************************************************************************)
Continue(l) == pc' = l /\ result' = IF l = "done" THEN "ok" ELSE result

Raise(e) == pc' = "done" /\ result' = e

Log(line) == console' = Append(console, line)

Did(e) == trace' = Append(trace, e)

\* the caller starts operation o
Begin(o) ==
    /\ pc = "idle"
    /\ op' = o
    /\ fsAtCall' = fs

\* the caller resumes: the frame of the operation is gone
Return ==
    /\ pc = "done"
    /\ pc' = "idle"
    /\ op' = "none" /\ result' = "none"
    /\ clientId' = << >> /\ password' = << >> /\ params' = "undefined"
    /\ cookies' = Null
    /\ todo' = << >> /\ gesture' = "" /\ selector' = "" /\ text' = << >> /\ idx' = 0
    /\ typeDelay' = [ min |-> TypeDelayMin, max |-> TypeDelayMax ]
    /\ callStart' = 0
    /\ scrollAmount' = 0 /\ stepDelay' = [ min |-> 0, max |-> 0 ]
    /\ now' = 0 /\ ticks' = 0
    /\ console' = << >> /\ trace' = << >>
    /\ fsAtCall' = << >>
    /\ UNCHANGED << clientVars, worldVars, delay, intervalAt, timeoutAt, pending,
                    gestureCalls, saved, scrollHistory >>

\* a variant of writeFileSync that appends to the file it finds
writeFileSyncAppend(f, path, data) ==
    [ q \in DOMAIN f \cup { path } |->
        IF q = path THEN (IF path \in DOMAIN f THEN f[path] ELSE << >>) \o data
        ELSE f[q] ]

\* fs.writeFileSync after fs.mkdirSync(dirname, recursive): client.ts 88-89
writeFileSync(f, path, data) ==
    [ q \in DOMAIN f \cup { path } |-> IF q = path THEN data ELSE f[q] ]

\* new GestureEngine(page), part_001 lines 10-15: the object the expression
\* yields, named by the page it is bound to
NewGestureEngine(inst, p) == IF inst # 0 THEN inst ELSE p

\* a variant of SessionSufficient that looks for the path segment 'login'
SessionSufficientBySegment(cks, currentUrl) ==
    cks.some /\ Len(cks.val) > 0 /\ ~includes(currentUrl, LoginSegment)

\* a variant of SessionSufficient that does not look at the number of cookies
SessionSufficientAnyRecord(cks, currentUrl) ==
    cks.some /\ ~includes(currentUrl, URLs.login)

\* client.ts line 130
SessionSufficient(cks, currentUrl) ==
    cks.some /\ Len(cks.val) > 0 /\ ~includes(currentUrl, URLs.login)

\* a variant of LoginSucceeded that looks for the whole login URL
LoginSucceededByLoginUrl(newUrl) == ~includes(newUrl, URLs.login)

\* client.ts line 149
LoginSucceeded(newUrl) == ~includes(newUrl, LoginSegment)

\* a variant of LoginScript that clicks submit before the password is typed
LoginScriptSubmitEarly(id, pw) ==
    << [ call |-> "typeText", sel |-> SelUsername, text |-> id ],
       [ call |-> "click", sel |-> SelSubmit, text |-> << >> ],
       [ call |-> "typeText", sel |-> SelPassword, text |-> pw ] >>

\* client.ts lines 140-142: the gesture calls of the login flow, in order
LoginScript(id, pw) ==
    << [ call |-> "typeText", sel |-> SelUsername, text |-> id ],
       [ call |-> "typeText", sel |-> SelPassword, text |-> pw ],
       [ call |-> "click", sel |-> SelSubmit, text |-> << >> ] >>

ScriptStep(call, sel, txt) == [ call |-> call, sel |-> sel, text |-> txt ]

\* client.ts lines 190-255: the awaited statements of postScheduledVideo, in
\* order. typeText, click and scrollPage are calls of the gesture engine, the
\* others act on this.page. Promise.all (198-202) starts waitForFileChooser,
\* then the click, and resumes when both have resolved.
PublishScript(videoPath, description, scheduleDate) ==
    << ScriptStep("goto", "", URLs.upload_creator_center),
       ScriptStep("click", SelSelectVideo, << >>),
       ScriptStep("log", "", << "Clicked Select video button." >>),
       ScriptStep("waitForFileChooser", "", << >>),
       ScriptStep("click", SelSelectVideo, << >>),
       ScriptStep("fileChooser", "", << >>),
       ScriptStep("accept", "", videoPath),
       ScriptStep("log", "", << "Video file selected." >>),
       ScriptStep("page.waitForSelector", SelProgress, << >>),
       ScriptStep("page.waitForFunction", SelProgress, << "100%" >>),
       ScriptStep("log", "", << "Video upload complete." >>),
       ScriptStep("page.focus", SelEditor, << >>),
       ScriptStep("page.click", SelEditor, << >>),
       ScriptStep("typeText", SelEditor, description),
       ScriptStep("log", "", << "Entered description and tags." >>),
       ScriptStep("scrollPage", "", << >>),
       ScriptStep("page.focus", SelSchedule, << >>),
       ScriptStep("click", SelSchedule, << >>),
       ScriptStep("log", "", << "Selected schedule option." >>),
       ScriptStep("page.focus", SelDate, << >>),
       ScriptStep("page.keyboard.type", "", scheduleDate),
       ScriptStep("page.click", SelPost, << >>),
       ScriptStep("log", "", << "Clicked the Post button." >>),
       ScriptStep("page.waitForSelector", SelModal, << >>),
       ScriptStep("log", "", << "Video scheduled successfully." >>) >>

\* where a step of an operation begins
StepEntry(call) ==
    CASE call = "typeText" -> "type_wait"
      [] call = "click"    -> "click_wait"
      [] OTHER             -> "page_do"

\* where scrollPage returns to: the caller, or client.ts line 222
AfterScroll == IF op = "scrollPage" THEN "done" ELSE "gesture_next"

\* where close() returns to: client.ts lines 121, 163, 172
AfterClose ==
    CASE op = "authenticate"   -> "init_launch"
      [] op = "toggleHeadless" -> "toggle_flip"
      [] OTHER                 -> "done"

\* where initialize() returns to: client.ts lines 124, 174
AfterInitialize ==
    CASE op = "authenticate"   -> "auth_load"
      [] op = "toggleHeadless" -> "toggle_log"
      [] OTHER                 -> "done"

\* where saveSession() returns to: client.ts lines 151, 162
AfterSave == IF op = "finalizeSession" THEN "close" ELSE "done"

\* where the last gesture call of an operation returns to: client.ts line 145
AfterGestures == IF op = "authenticate" THEN "auth_wait_nav" ELSE "done"

\* a name for the browser puppeteer.launch creates: one no open browser and
\* no engine holds
FreshBrowser ==
    CHOOSE i \in 1..(MaxBrowsers + 1) :
        i \notin DOMAIN browsers /\ i # GestureEngine_instance

(***************************************************************************)
(* The public operations of TikTokClient.                                  *)
(***************************************************************************)
CallInitialize(id, prm) ==
    /\ Begin("initialize")
    /\ Cardinality(DOMAIN browsers) < MaxBrowsers
    /\ clientId' = id /\ params' = prm
    /\ pc' = "init_launch"
    /\ UNCHANGED << clientVars, worldVars, result, password, cookies, gestureVars,
                    scrollVars, console, trace, saved, scrollHistory >>

CallClose ==
    /\ Begin("close")
    /\ pc' = "close"
    /\ UNCHANGED << clientVars, worldVars, result, clientId, password, params, cookies,
                    gestureVars, scrollVars, console, trace, saved, scrollHistory >>

CallAuthenticate(id, pw) ==
    /\ Begin("authenticate")
    /\ Cardinality(DOMAIN browsers \ { browser }) < MaxBrowsers
    /\ clientId' = id /\ password' = pw
    \* client.ts line 124: initialize(clientId, { headless: false })
    /\ params' = "false"
    /\ pc' = "close"
    /\ UNCHANGED << clientVars, worldVars, result, cookies, gestureVars, scrollVars,
                    console, trace, saved, scrollHistory >>

CallFinalizeSession(id) ==
    /\ Begin("finalizeSession")
    /\ clientId' = id
    /\ pc' = "save"
    /\ UNCHANGED << clientVars, worldVars, result, password, params, cookies,
                    gestureVars, scrollVars, console, trace, saved, scrollHistory >>

CallToggleHeadless(id) ==
    /\ Begin("toggleHeadless")
    /\ Cardinality(DOMAIN browsers \ { browser }) < MaxBrowsers
    /\ clientId' = id
    /\ pc' = "close"
    /\ UNCHANGED << clientVars, worldVars, result, password, params, cookies,
                    gestureVars, scrollVars, console, trace, saved, scrollHistory >>

(***************************************************************************)
(* The steps.                                                              *)
(***************************************************************************)
\* the mode a browser was launched in (client.ts line 58), as a word
ModeOf(b) == IF b.headless THEN "headless" ELSE "non-headless"

\* close(), client.ts 72-78
Close ==
    /\ pc = "close"
    /\ IF browser # 0
       THEN /\ browsers' = [ b \in DOMAIN browsers \ { browser } |-> browsers[b] ]
            /\ browser' = 0
            /\ page' = 0
            /\ pageUrl' = AboutBlank
            /\ pageCookies' = << >>
            /\ navigation' = "none"
            /\ Did(Ev("browser.close", browser, "", << ModeOf(browsers[browser]) >>, << >>))
       ELSE UNCHANGED << browsers, browser, page, pageUrl, pageCookies, navigation,
                         trace >>
    /\ Continue(AfterClose)
    /\ UNCHANGED << headless, gestureEngine, GestureEngine_instance, fs,
                    op, clientId, password, params, cookies, gestureVars, scrollVars,
                    console, historyVars >>

\* initialize(), client.ts 54-61: puppeteer.launch and browser.newPage
Launch ==
    /\ pc = "init_launch"
    /\ LET isHeadless == IF params # "undefined" THEN params = "true" ELSE headless
           id == FreshBrowser
       IN  /\ browsers' = (id :> [ headless |-> isHeadless, scrollY |-> 0 ]) @@ browsers
           /\ browser' = id
           /\ page' = id
           /\ Did(Ev("launch", id, "", << >>, << >>))
    /\ pageUrl' = AboutBlank
    /\ pageCookies' = << >>
    /\ navigation' = "none"
    /\ Continue("init_goto")
    /\ UNCHANGED << headless, gestureEngine, GestureEngine_instance, fs,
                    op, clientId, password, params, cookies, gestureVars, scrollVars,
                    console, historyVars >>

\* initialize(), client.ts 62-63: page.goto(URLs.base); the site decides where
\* the page lands, and with the profile directory (userDataDir) the cookies the
\* page then holds
GotoBase ==
    /\ pc = "init_goto"
    /\ \E u \in SiteUrls, jar \in SiteJars :
          /\ pageUrl' = u
          /\ pageCookies' = jar
    /\ navigation' = "none"
    /\ browsers' = [ browsers EXCEPT ![page].scrollY = 0 ]
    /\ Did(Ev("goto", page, "", URLs.base, << >>))
    /\ Log("Navigated to base")
    /\ Continue("init_engine")
    /\ UNCHANGED << clientVars, GestureEngine_instance, fs,
                    op, clientId, password, params, cookies, gestureVars, scrollVars,
                    historyVars >>

\* initialize(), client.ts line 64: this.gestureEngine = new GestureEngine(this.page)
BindEngine ==
    /\ pc = "init_engine"
    /\ gestureEngine' = NewGestureEngine(GestureEngine_instance, page)
    /\ GestureEngine_instance' = NewGestureEngine(GestureEngine_instance, page)
    /\ Continue(AfterInitialize)
    /\ UNCHANGED << browser, page, headless, browsers, pageUrl, pageCookies,
                    navigation, fs,
                    op, clientId, password, params, cookies, gestureVars, scrollVars,
                    console, trace, historyVars >>

\* a variant of LoadSession that reads the file without asking whether it
\* exists
LoadSessionUnchecked ==
    /\ pc = "auth_load"
    /\ LET sessionFilePath == getSessionFilePath(clientId)
       IN  IF sessionFilePath \in DOMAIN fs
           THEN LET parsed == JSONparse(fs[sessionFilePath])
                IN  IF ~parsed.ok
                    THEN /\ Raise("SyntaxError")
                         /\ UNCHANGED << pageCookies, console, trace, cookies >>
                    ELSE /\ IF page # 0
                            THEN /\ pageCookies' = setCookie(pageCookies, parsed.val)
                                 /\ Did(Ev("setCookie", page, "", parsed.val, << >>))
                                 /\ Log("Session cookies loaded")
                            ELSE UNCHANGED << pageCookies, console, trace >>
                         /\ cookies' = Some(parsed.val)
                         /\ Continue("auth_decide")
           ELSE /\ Raise("ENOENT")
                /\ UNCHANGED << pageCookies, console, trace, cookies >>
    /\ UNCHANGED << clientVars, GestureEngine_instance, browsers, pageUrl,
                    navigation, fs,
                    op, clientId, password, params, gestureVars, scrollVars,
                    historyVars >>

\* a variant of LoadSession that takes a file it cannot parse for no file
LoadSessionForgiving ==
    /\ pc = "auth_load"
    /\ LET sessionFilePath == getSessionFilePath(clientId)
       IN  IF sessionFilePath \in DOMAIN fs
           THEN LET parsed == JSONparse(fs[sessionFilePath])
                IN  IF ~parsed.ok
                    THEN /\ cookies' = Null
                         /\ Continue("auth_decide")
                         /\ UNCHANGED << pageCookies, console, trace >>
                    ELSE /\ IF page # 0
                            THEN /\ pageCookies' = setCookie(pageCookies, parsed.val)
                                 /\ Did(Ev("setCookie", page, "", parsed.val, << >>))
                                 /\ Log("Session cookies loaded")
                            ELSE UNCHANGED << pageCookies, console, trace >>
                         /\ cookies' = Some(parsed.val)
                         /\ Continue("auth_decide")
           ELSE /\ cookies' = Null
                /\ Continue("auth_decide")
                /\ UNCHANGED << pageCookies, console, trace >>
    /\ UNCHANGED << clientVars, GestureEngine_instance, browsers, pageUrl,
                    navigation, fs,
                    op, clientId, password, params, gestureVars, scrollVars,
                    historyVars >>

\* loadSession(), client.ts 98-110
LoadSession ==
    /\ pc = "auth_load"
    /\ LET sessionFilePath == getSessionFilePath(clientId)
       IN  IF sessionFilePath \in DOMAIN fs
           THEN LET parsed == JSONparse(fs[sessionFilePath])
                IN  IF ~parsed.ok
                    THEN /\ Raise("SyntaxError")
                         /\ UNCHANGED << pageCookies, console, trace, cookies >>
                    ELSE /\ IF page # 0
                            THEN /\ pageCookies' = setCookie(pageCookies, parsed.val)
                                 /\ Did(Ev("setCookie", page, "", parsed.val, << >>))
                                 /\ Log("Session cookies loaded")
                            ELSE UNCHANGED << pageCookies, console, trace >>
                         /\ cookies' = Some(parsed.val)
                         /\ Continue("auth_decide")
           ELSE /\ cookies' = Null
                /\ Continue("auth_decide")
                /\ UNCHANGED << pageCookies, console, trace >>
    /\ UNCHANGED << clientVars, GestureEngine_instance, browsers, pageUrl,
                    navigation, fs,
                    op, clientId, password, params, gestureVars, scrollVars,
                    historyVars >>

\* authenticate(), client.ts 128-136: the cached-session decision
Decide ==
    /\ pc = "auth_decide"
    /\ IF SessionSufficient(cookies, pageUrl)
       THEN /\ Log("Session cookies loaded, no need to authenticate again.")
            /\ Continue("done")
       ELSE /\ Log("Logging in user")
            /\ Continue("auth_goto_login")
    /\ UNCHANGED << clientVars, worldVars, op, clientId, password, params, cookies,
                    gestureVars, scrollVars, trace, historyVars >>

\* authenticate(), client.ts line 137: page.goto(URLs.login). The URL the page
\* then shows is read nowhere before the next navigation replaces it.
GotoLogin ==
    /\ pc = "auth_goto_login"
    /\ pageUrl' = URLs.login
    /\ navigation' = "none"
    /\ browsers' = [ browsers EXCEPT ![page].scrollY = 0 ]
    /\ Did(Ev("goto", page, "", URLs.login, << >>))
    /\ todo' = LoginScript(clientId, password)
    /\ Continue("gesture_next")
    /\ UNCHANGED << clientVars, GestureEngine_instance, pageCookies, fs,
                    op, clientId, password, params, cookies, gestureRun, scrollVars,
                    console, historyVars >>

\* the next gesture call of the operation, or its end
NextGesture ==
    /\ pc = "gesture_next"
    /\ IF todo = << >>
       THEN /\ Continue(AfterGestures)
            /\ UNCHANGED gestureVars
       ELSE /\ gesture' = Head(todo).call
            /\ selector' = Head(todo).sel
            /\ text' = Head(todo).text
            /\ idx' = 1
            /\ callStart' = Len(trace)
            /\ todo' = Tail(todo)
            /\ Continue(StepEntry(Head(todo).call))
            /\ UNCHANGED << typeDelay, delay >>
    /\ UNCHANGED << clientVars, worldVars, op, clientId, password, params, cookies,
                    scrollVars, console, trace, historyVars >>

\* typeText and click, part_001 lines 38, 47: page.waitForSelector(selector) on
\* the engine's page. Puppeteer rejects when the page is closed, and after its
\* default timeout when the element does not appear.
WaitForSelector ==
    /\ pc \in { "type_wait", "click_wait" }
    /\ IF gestureEngine \notin DOMAIN browsers
       THEN /\ Raise("TargetCloseError")
            /\ UNCHANGED trace
       ELSE \E found \in BOOLEAN :
               IF found
               THEN /\ Did(Ev("waitForSelector", gestureEngine, selector, << >>, << >>))
                    /\ Continue(IF pc = "type_wait" THEN "type_focus" ELSE "click_do")
               ELSE /\ Raise("TimeoutError")
                    /\ UNCHANGED trace
    /\ UNCHANGED << clientVars, worldVars, op, clientId, password, params, cookies,
                    gestureVars, scrollVars, console, historyVars >>

\* typeText, part_001 line 39: page.focus(selector)
Focus ==
    /\ pc = "type_focus"
    /\ Did(Ev("focus", gestureEngine, selector, << >>, << >>))
    /\ Continue(IF idx > Len(text) THEN "gesture_next" ELSE "type_char")
    /\ UNCHANGED << clientVars, worldVars, op, clientId, password, params, cookies,
                    gestureVars, scrollVars, console, historyVars >>

\* a variant of TypeChar that types the next character at once and pauses
\* only after the last one
TypeCharBurst ==
    /\ pc = "type_char"
    /\ Did(Ev("keyboard.type", gestureEngine, selector, << text[idx] >>, << >>))
    /\ IF idx < Len(text)
       THEN /\ idx' = idx + 1
            /\ Continue("type_char")
       ELSE /\ idx' = idx
            /\ Continue("type_delay")
    /\ UNCHANGED << clientVars, worldVars, op, clientId, password, params, cookies,
                    todo, gesture, selector, text, typeDelay, delay, callStart,
                    scrollVars, console, historyVars >>

\* typeText, part_001 line 41: page.keyboard.type(char)
TypeChar ==
    /\ pc = "type_char"
    /\ Did(Ev("keyboard.type", gestureEngine, selector, << text[idx] >>, << >>))
    /\ Continue("type_delay")
    /\ UNCHANGED << clientVars, worldVars, op, clientId, password, params, cookies,
                    gestureVars, scrollVars, console, historyVars >>

\* waitRandomTime, part_001 lines 22-24, called at line 42: the delay is drawn
\* and the timer is set
TypeDelay ==
    /\ pc = "type_delay"
    /\ \E r \in RandomDraws : delay' = RandomDelay(r, typeDelay.min, typeDelay.max)
    /\ Continue("type_sleep")
    /\ UNCHANGED << clientVars, worldVars, op, clientId, password, params, cookies,
                    todo, gesture, selector, text, idx, typeDelay, callStart,
                    scrollVars, console, trace, historyVars >>

\* the timer of waitRandomTime fires: the loop of typeText goes on, part_001
\* lines 40-43
TypeResume ==
    /\ pc = "type_sleep"
    /\ Did(Ev("delay", gestureEngine, selector, << >>, << >>))
    /\ delay' = 0
    /\ idx' = idx + 1
    /\ Continue(IF idx + 1 > Len(text) THEN "gesture_next" ELSE "type_char")
    /\ UNCHANGED << clientVars, worldVars, op, clientId, password, params, cookies,
                    todo, gesture, selector, text, typeDelay, callStart, scrollVars,
                    console, historyVars >>

\* click, part_001 line 48: page.click(selector). It resolves when the click is
\* dispatched. The click on the submit button of the login form may start a
\* navigation of the page (the form may also refuse to submit); nothing in
\* click waits for a navigation it starts.
Click ==
    /\ pc = "click_do"
    /\ Did(Ev("click", gestureEngine, selector, << >>, << >>))
    /\ IF selector = SelSubmit /\ gestureEngine = page /\ includes(pageUrl, URLs.login)
       THEN \E starts \in BOOLEAN :
               navigation' = IF starts THEN "started" ELSE navigation
       ELSE UNCHANGED navigation
    /\ Continue("gesture_next")
    /\ UNCHANGED << clientVars, GestureEngine_instance, browsers, pageUrl, pageCookies,
                    fs, op, clientId, password, params, cookies, gestureVars, scrollVars,
                    console, historyVars >>

\* the navigation the click started settles while no page.waitForNavigation
\* is registered: between the return of click (client.ts 142) and the call of
\* line 145, or after that wait was rejected. The page shows where it landed;
\* no promise of the client resolves.
NavigationSettles ==
    /\ navigation = "started"
    /\ pc # "auth_wait_nav"
    /\ \E u \in SiteUrls, jar \in SiteJars :
          /\ pageUrl' = u
          /\ pageCookies' = jar
    /\ navigation' = "settled"
    /\ browsers' = [ browsers EXCEPT ![page].scrollY = 0 ]
    /\ UNCHANGED << clientVars, GestureEngine_instance, fs, callVars, gestureVars,
                    scrollVars, console, trace, historyVars >>

\* authenticate(), client.ts line 145: page.waitForNavigation(). It resolves
\* when a navigation of the page settles after the wait was registered: the
\* one the click started, if it has not settled yet, or a later one (the user
\* solves a captcha, the site redirects). A navigation that settled before
\* line 145 is not seen. Puppeteer's default timeout rejects the wait when no
\* navigation settles in time.
WaitForNavigation ==
    /\ pc = "auth_wait_nav"
    /\ \E settled \in BOOLEAN :
          IF settled
          THEN /\ \E u \in SiteUrls, jar \in SiteJars :
                     /\ pageUrl' = u
                     /\ pageCookies' = jar
               /\ navigation' = IF navigation = "started" THEN "settled" ELSE navigation
               /\ browsers' = [ browsers EXCEPT ![page].scrollY = 0 ]
               /\ Did(Ev("navigated", page, "", << >>, << >>))
               /\ Continue("auth_check")
          ELSE /\ Raise("TimeoutError")
               /\ UNCHANGED << browsers, pageUrl, pageCookies, navigation, trace >>
    /\ UNCHANGED << clientVars, GestureEngine_instance, fs,
                    op, clientId, password, params, cookies, gestureVars, scrollVars,
                    console, historyVars >>

\* authenticate(), client.ts 148-154
CheckLogin ==
    /\ pc = "auth_check"
    /\ IF LoginSucceeded(pageUrl)
       THEN /\ Log("Login successful, session saved.")
            /\ Continue("save")
       ELSE /\ Log("Login failed or captcha required.")
            /\ Continue("done")
    /\ UNCHANGED << clientVars, worldVars, op, clientId, password, params, cookies,
                    gestureVars, scrollVars, trace, historyVars >>

\* saveSession(), client.ts 84-91
SaveSession ==
    /\ pc = "save"
    /\ IF page = 0
       THEN /\ Raise("Browser not initialized.")
            /\ UNCHANGED << fs, saved, console, trace >>
       ELSE LET sessionFilePath == getSessionFilePath(clientId)
            IN  /\ fs' = writeFileSync(fs, sessionFilePath, JSONstringify(pageCookies))
                /\ saved' = [ q \in DOMAIN saved \cup { sessionFilePath } |->
                                 IF q = sessionFilePath THEN pageCookies ELSE saved[q] ]
                /\ Did(Ev("writeFileSync", page, "", pageCookies, << >>))
                /\ Log("Session cookies saved")
                /\ Continue(AfterSave)
    /\ UNCHANGED << clientVars, GestureEngine_instance, browsers, pageUrl, pageCookies,
                    navigation,
                    op, clientId, password, params, cookies, gestureVars, scrollVars,
                    fsAtCall, scrollHistory >>

\* toggleHeadless(), client.ts 173-174
FlipHeadless ==
    /\ pc = "toggle_flip"
    /\ headless' = ~headless
    /\ params' = IF ~headless THEN "true" ELSE "false"
    /\ Continue("init_launch")
    /\ UNCHANGED << browser, page, gestureEngine, worldVars, op, clientId, password,
                    cookies, gestureVars, scrollVars, console, trace, historyVars >>

\* toggleHeadless(), client.ts line 175
ToggleDone ==
    /\ pc = "toggle_log"
    /\ Log(IF headless THEN "Switched to headless mode" ELSE "Switched to non-headless mode")
    /\ Continue("done")
    /\ UNCHANGED << clientVars, worldVars, op, clientId, password, params, cookies,
                    gestureVars, scrollVars, trace, historyVars >>

(***************************************************************************)
(* The client: any sequence of its public operations.                      *)
(***************************************************************************)
Next ==
    \/ \E id \in Identities, prm \in { "undefined", "true", "false" } :
          CallInitialize(id, prm)
    \/ CallClose
    \/ \E id \in Identities, pw \in Secrets : CallAuthenticate(id, pw)
    \/ \E id \in Identities : CallFinalizeSession(id)
    \/ \E id \in Identities : CallToggleHeadless(id)
    \/ Return
    \/ Close
    \/ Launch
    \/ GotoBase
    \/ BindEngine
    \/ LoadSession
    \/ Decide
    \/ GotoLogin
    \/ NextGesture
    \/ WaitForSelector
    \/ Focus
    \/ TypeChar
    \/ TypeDelay
    \/ TypeResume
    \/ Click
    \/ NavigationSettles
    \/ WaitForNavigation
    \/ CheckLogin
    \/ SaveSession
    \/ FlipHeadless
    \/ ToggleDone

Spec == Init /\ [][Next]_vars

(***************************************************************************)
(* The client over a session store that something else has damaged: the    *)
(* session file of one identity was cut short while it was written.        *)
(***************************************************************************)
TruncatedStore ==
    ( << Paths.sessionBase, hashClientId(<< "a", "b" >>), Paths.cookiesFile >>
        :> << "[", "sid", "," >> )

InitStored ==
    /\ browser = 0 /\ page = 0 /\ headless = TRUE /\ gestureEngine = 0
    /\ GestureEngine_instance = 0
    /\ browsers = << >>
    /\ pageUrl = AboutBlank /\ pageCookies = << >>
    /\ navigation = "none"
    /\ fs = TruncatedStore
    /\ op = "none" /\ pc = "idle" /\ result = "none"
    /\ clientId = << >> /\ password = << >> /\ params = "undefined" /\ cookies = Null
    /\ todo = << >> /\ gesture = "" /\ selector = "" /\ text = << >> /\ idx = 0
    /\ typeDelay = [ min |-> TypeDelayMin, max |-> TypeDelayMax ]
    /\ delay = 0 /\ callStart = 0
    /\ scrollAmount = 0 /\ stepDelay = [ min |-> 0, max |-> 0 ]
    /\ now = 0 /\ intervalAt = NoTimer /\ timeoutAt = NoTimer
    /\ pending = << >> /\ ticks = 0 /\ gestureCalls = 0
    /\ console = << >>
    /\ trace = << >>
    /\ fsAtCall = << >> /\ saved = << >> /\ seenTicks = { } /\ issued = 0

SpecStored == InitStored /\ [][Next]_vars

(***************************************************************************)
(* The GestureEngine used directly, on the page of an initialized client:  *)
(* typeText, click and scrollPage with arguments of the caller's choice.   *)
(***************************************************************************)
\* the state initialize(clientId) leaves: one browser, its page on the base
\* URL, and the engine bound to that page
InitGesture ==
    /\ browser = 1 /\ page = 1 /\ headless = TRUE /\ gestureEngine = 1
    /\ GestureEngine_instance = 1
    /\ browsers = (1 :> [ headless |-> TRUE, scrollY |-> 0 ])
    /\ pageUrl = URLs.base /\ pageCookies = << >>
    /\ navigation = "none"
    /\ fs = << >>
    /\ op = "none" /\ pc = "idle" /\ result = "none"
    /\ clientId = << >> /\ password = << >> /\ params = "undefined" /\ cookies = Null
    /\ todo = << >> /\ gesture = "" /\ selector = "" /\ text = << >> /\ idx = 0
    /\ typeDelay = [ min |-> TypeDelayMin, max |-> TypeDelayMax ]
    /\ delay = 0 /\ callStart = 0
    /\ scrollAmount = 0 /\ stepDelay = [ min |-> 0, max |-> 0 ]
    /\ now = 0 /\ intervalAt = NoTimer /\ timeoutAt = NoTimer
    /\ pending = << >> /\ ticks = 0 /\ gestureCalls = 0
    /\ console = << >>
    /\ trace = << >>
    /\ fsAtCall = << >> /\ saved = << >> /\ seenTicks = { } /\ issued = 0

Texts == { << >>, << "a", "b", "c" >> }

Pacings ==
    { [ min |-> 0, max |-> 0 ], [ min |-> 0, max |-> 1 ], [ min |-> 10, max |-> 10 ],
      [ min |-> TypeDelayMin, max |-> TypeDelayMax ], PublishScrollDelay }

ScrollAmounts == { 100, 300 }

\* engine.typeText(selector, text, typeDelay)
CallTypeText(sel, txt, td) ==
    /\ Begin("typeText")
    /\ gestureCalls < MaxGestureCalls
    /\ gestureCalls' = gestureCalls + 1
    /\ todo' = << [ call |-> "typeText", sel |-> sel, text |-> txt ] >>
    /\ typeDelay' = td
    /\ pc' = "gesture_next"
    /\ UNCHANGED << clientVars, worldVars, result, clientId, password, params, cookies,
                    gesture, selector, text, idx, delay, callStart,
                    scrollAmount, stepDelay, now, intervalAt, timeoutAt, pending, ticks,
                    console, trace, saved, scrollHistory >>

\* engine.click(selector)
CallClick(sel) ==
    /\ Begin("click")
    /\ gestureCalls < MaxGestureCalls
    /\ gestureCalls' = gestureCalls + 1
    /\ todo' = << [ call |-> "click", sel |-> sel, text |-> << >> ] >>
    /\ pc' = "gesture_next"
    /\ UNCHANGED << clientVars, worldVars, result, clientId, password, params, cookies,
                    gestureRun,
                    scrollAmount, stepDelay, now, intervalAt, timeoutAt, pending, ticks,
                    console, trace, saved, scrollHistory >>

\* engine.scrollPage(scrollAmount, { min, max })
CallScrollPage(amount, sd) ==
    /\ Begin("scrollPage")
    /\ gestureCalls < MaxGestureCalls
    /\ gestureCalls' = gestureCalls + 1
    /\ scrollAmount' = amount
    /\ stepDelay' = sd
    /\ now' = 0
    /\ ticks' = 0
    /\ pc' = "scroll_start"
    /\ UNCHANGED << clientVars, worldVars, result, clientId, password, params, cookies,
                    gestureVars, intervalAt, timeoutAt, pending,
                    console, trace, saved, scrollHistory >>

\* scrollPage, part_001 lines 28-33: setInterval(callback, 1000), then
\* waitRandomTime(2000, 3000) draws the budget and sets its timer
ScrollStart ==
    /\ pc = "scroll_start"
    /\ intervalAt' = now + ScrollIntervalMs
    /\ \E r \in RandomDraws :
          /\ delay' = RandomDelay(r, ScrollBudgetMin, ScrollBudgetMax)
          /\ timeoutAt' = now + RandomDelay(r, ScrollBudgetMin, ScrollBudgetMax)
    /\ Continue("scroll_wait")
    /\ UNCHANGED << clientVars, worldVars, op, clientId, password, params, cookies,
                    todo, gesture, selector, text, idx, typeDelay, callStart,
                    scrollAmount, stepDelay, now, pending, ticks, gestureCalls,
                    console, trace, historyVars >>

\* the repeating timer fires, part_001 lines 28-29: the callback issues
\* page.evaluate(window.scrollBy(0, amount)) on the engine's page. (It then
\* awaits waitRandomTime(min, max), which holds up nothing: the timer fires
\* again whether or not the callback has finished.) When both timers are due
\* at the same instant either may run first.
IntervalFires ==
    /\ pc = "scroll_wait"
    /\ intervalAt # NoTimer
    /\ intervalAt <= timeoutAt
    /\ now' = intervalAt
    /\ intervalAt' = intervalAt + ScrollIntervalMs
    /\ ticks' = ticks + 1
    /\ issued' = issued + scrollAmount
    /\ Did(Ev("evaluate", gestureEngine, "window.scrollBy", << >>, << >>))
    /\ pending' = IF gestureEngine \in DOMAIN browsers
                  THEN Append(pending, [ page |-> gestureEngine, amount |-> scrollAmount ])
                  ELSE pending
    /\ UNCHANGED << clientVars, worldVars, callVars, gestureVars,
                    scrollAmount, stepDelay, timeoutAt, gestureCalls,
                    console, fsAtCall, saved, seenTicks >>

\* a variant of EvaluateDone that scrolls to the amount: window.scrollTo(0, amount)
EvaluateDoneScrollTo ==
    /\ pending # << >>
    /\ LET e == Head(pending)
       IN  browsers' = IF e.page \in DOMAIN browsers
                       THEN [ browsers EXCEPT ![e.page].scrollY = e.amount ]
                       ELSE browsers
    /\ pending' = Tail(pending)
    /\ UNCHANGED << clientVars, GestureEngine_instance, pageUrl, pageCookies,
                    navigation, fs,
                    callVars, gestureVars,
                    scrollAmount, stepDelay, now, intervalAt, timeoutAt, ticks,
                    gestureCalls, console, trace, historyVars >>

\* an evaluate in flight runs in the page: window.scrollBy(0, amount)
EvaluateDone ==
    /\ pending # << >>
    /\ LET e == Head(pending)
       IN  browsers' = IF e.page \in DOMAIN browsers
                       THEN [ browsers EXCEPT ![e.page].scrollY = @ + e.amount ]
                       ELSE browsers
    /\ pending' = Tail(pending)
    /\ UNCHANGED << clientVars, GestureEngine_instance, pageUrl, pageCookies,
                    navigation, fs,
                    callVars, gestureVars,
                    scrollAmount, stepDelay, now, intervalAt, timeoutAt, ticks,
                    gestureCalls, console, trace, historyVars >>

\* the budget timer fires, part_001 lines 33-34: waitRandomTime resolves,
\* clearInterval stops the repeating timer and scrollPage returns
TimeoutFires ==
    /\ pc = "scroll_wait"
    /\ timeoutAt # NoTimer
    /\ timeoutAt <= intervalAt
    /\ now' = timeoutAt
    /\ timeoutAt' = NoTimer
    /\ intervalAt' = NoTimer
    /\ delay' = 0
    /\ seenTicks' = seenTicks \cup { << scrollAmount, stepDelay, ticks >> }
    /\ Continue(AfterScroll)
    /\ UNCHANGED << clientVars, worldVars, op, clientId, password, params, cookies,
                    todo, gesture, selector, text, idx, typeDelay, callStart,
                    scrollAmount, stepDelay, pending, ticks, gestureCalls,
                    console, trace, fsAtCall, saved, issued >>

NextGestureEngine ==
    \/ \E txt \in Texts, td \in Pacings : CallTypeText(SelUsername, txt, td)
    \/ CallClick(SelSubmit)
    \/ \E amount \in ScrollAmounts, sd \in Pacings : CallScrollPage(amount, sd)
    \/ Return
    \/ NextGesture
    \/ WaitForSelector
    \/ Focus
    \/ TypeChar
    \/ TypeDelay
    \/ TypeResume
    \/ Click
    \/ ScrollStart
    \/ IntervalFires
    \/ EvaluateDone
    \/ TimeoutFires

SpecGesture == InitGesture /\ [][NextGestureEngine]_vars

(***************************************************************************)
(* postScheduledVideo (client.ts 185-256) on a client that has been        *)
(* initialized, closed or neither.                                         *)
(***************************************************************************)
VideoPaths    == { << "video.mp4" >> }
Descriptions  == { << >>, << "d", "#t" >> }
ScheduleDates == { << "2026-12-01" >> }
\* the identity of the client that publishes
PublishIdentities == { << "c" >> }

\* a variant of CallPostScheduledVideo without the test of this.page
CallPostScheduledVideoUnguarded(videoPath, description, scheduleDate) ==
    /\ Begin("postScheduledVideo")
    /\ gestureCalls < MaxPublishCalls
    /\ gestureCalls' = gestureCalls + 1
    /\ todo' = PublishScript(videoPath, description, scheduleDate)
    /\ pc' = "gesture_next"
    /\ UNCHANGED << clientVars, worldVars, result, clientId, password, params, cookies,
                    gestureRun,
                    scrollAmount, stepDelay, now, intervalAt, timeoutAt, pending, ticks,
                    console, trace, saved, scrollHistory >>

\* postScheduledVideo, client.ts lines 185-186: the call and its precondition
CallPostScheduledVideo(videoPath, description, scheduleDate) ==
    /\ Begin("postScheduledVideo")
    /\ IF page = 0
       THEN /\ Raise("Browser not initialized.")
            /\ UNCHANGED << todo, gestureCalls >>
       ELSE /\ gestureCalls < MaxPublishCalls
            /\ gestureCalls' = gestureCalls + 1
            /\ todo' = PublishScript(videoPath, description, scheduleDate)
            /\ pc' = "gesture_next"
            /\ UNCHANGED result
    /\ UNCHANGED << clientVars, worldVars, clientId, password, params, cookies,
                    gestureRun,
                    scrollAmount, stepDelay, now, intervalAt, timeoutAt, pending, ticks,
                    console, trace, saved, scrollHistory >>

\* client.ts line 190: page.goto(upload, networkidle2); the navigation settles
\* or puppeteer's default navigation timeout rejects it
PageGoto ==
    /\ pc = "page_do" /\ gesture = "goto"
    /\ \E settled \in BOOLEAN :
          IF settled
          THEN /\ pageUrl' = text
               /\ navigation' = "none"
               /\ browsers' = [ browsers EXCEPT ![page].scrollY = 0 ]
               /\ Did(Ev("goto", page, "", text, << >>))
               /\ Continue("gesture_next")
          ELSE /\ Raise("TimeoutError")
               /\ UNCHANGED << browsers, pageUrl, navigation, trace >>
    /\ UNCHANGED << clientVars, GestureEngine_instance, pageCookies, fs,
                    op, clientId, password, params, cookies, gestureVars, scrollVars,
                    console, historyVars >>

\* client.ts lines 199/202, 207, 208, 254: the waits on this.page, for the
\* file chooser, for an element to be visible, for the progress text to read
\* 100%. Each resolves, or puppeteer's default timeout rejects it.
PageWait ==
    /\ pc = "page_do"
    /\ gesture \in { "fileChooser", "page.waitForSelector", "page.waitForFunction" }
    /\ \E resolved \in BOOLEAN :
          IF resolved
          THEN /\ Did(Ev(gesture, page, selector, text, << >>))
               /\ Continue("gesture_next")
          ELSE /\ Raise("TimeoutError")
               /\ UNCHANGED trace
    /\ UNCHANGED << clientVars, worldVars, op, clientId, password, params, cookies,
                    gestureVars, scrollVars, console, historyVars >>

\* client.ts lines 199, 203, 215, 216, 222, 242, 243, 250: the acts on
\* this.page that do not wait. focus and click reject when no element matches
\* the selector.
PageAct ==
    /\ pc = "page_do"
    /\ gesture \in { "waitForFileChooser", "accept", "page.focus", "page.click",
                      "page.keyboard.type" }
    /\ \E matched \in BOOLEAN :
          IF matched \/ gesture \notin { "page.focus", "page.click" }
          THEN /\ Did(Ev(gesture, page, selector, text, << >>))
               /\ Continue("gesture_next")
          ELSE /\ Raise("Error")
               /\ UNCHANGED trace
    /\ UNCHANGED << clientVars, worldVars, op, clientId, password, params, cookies,
                    gestureVars, scrollVars, console, historyVars >>

\* client.ts lines 195, 204, 212, 219, 227, 251, 255: console.log
PageLog ==
    /\ pc = "page_do" /\ gesture = "log"
    /\ Log(text[1])
    /\ Continue("gesture_next")
    /\ UNCHANGED << clientVars, worldVars, op, clientId, password, params, cookies,
                    gestureVars, scrollVars, trace, historyVars >>

\* client.ts line 221: gestureEngine.scrollPage(300, { min: 100, max: 500 })
PostScroll ==
    /\ pc = "page_do" /\ gesture = "scrollPage"
    /\ scrollAmount' = PublishScrollAmount
    /\ stepDelay' = PublishScrollDelay
    /\ now' = 0
    /\ ticks' = 0
    /\ Continue("scroll_start")
    /\ UNCHANGED << clientVars, worldVars, op, clientId, password, params, cookies,
                    gestureVars, intervalAt, timeoutAt, pending, gestureCalls,
                    console, trace, historyVars >>

NextPublish ==
    \/ \E id \in PublishIdentities : CallInitialize(id, "undefined")
    \/ CallClose
    \/ \E id \in PublishIdentities : CallFinalizeSession(id)
    \/ \E v \in VideoPaths, d \in Descriptions, sd \in ScheduleDates :
          CallPostScheduledVideo(v, d, sd)
    \/ Return
    \/ Close
    \/ Launch
    \/ GotoBase
    \/ BindEngine
    \/ SaveSession
    \/ NextGesture
    \/ WaitForSelector
    \/ Focus
    \/ TypeChar
    \/ TypeDelay
    \/ TypeResume
    \/ Click
    \/ PageGoto
    \/ PageWait
    \/ PageAct
    \/ PageLog
    \/ PostScroll
    \/ ScrollStart
    \/ IntervalFires
    \/ EvaluateDone
    \/ TimeoutFires

SpecPublish == Init /\ [][NextPublish]_vars

(***************************************************************************)
(* searchTag (called at test.ts line 13; its body is not in the sources):  *)
(* the content discovery pipeline as the specification describes it.       *)
(***************************************************************************)
\* the scroll passes of one search
SearchPasses == 10

Tags == { << "art" >>, << "street", " ", "art" >> }

\* percent-encoding of a tag
PercentEncode(tag) == [ i \in 1..Len(tag) |-> IF tag[i] = " " THEN "%20" ELSE tag[i] ]

TagUrl(tag) == URLs.base \o << "tag/" >> \o PercentEncode(tag)

\* a nested child of an item, with or without an anchor element
Child(anchor, href) == [ anchor |-> anchor, href |-> href ]

\* an item whose last nested child holds an anchor with this href
Item(href) == << Child(FALSE, ""), Child(TRUE, href) >>

\* an item with an anchor, but not in its last nested child
ItemAnchorNotLast == << Child(TRUE, "/v/9"), Child(FALSE, "") >>

\* the listings the site may serve
Documents ==
    { << Item("/v/1"), Item("/v/2"), Item("/v/3") >>,
      << Item("/v/1"), Item(""), Item("/v/1") >>,
      << Item("/v/2"), ItemAnchorNotLast, << >>, Item("/v/1") >>,
      << >> }

\* a variant of ExtractLinks that reads the first nested child of an item
RECURSIVE ExtractLinksFirstChild(_)
ExtractLinksFirstChild(items) ==
    IF items = << >> THEN << >>
    ELSE LET item == Head(items)
         IN  ( IF item # << >> /\ item[1].anchor /\ item[1].href # ""
               THEN << item[1].href >> ELSE << >> )
                 \o ExtractLinksFirstChild(Tail(items))

\* the walk of the listing: the container's items, each item's last nested
\* child, that child's anchor, its href when it is not empty
RECURSIVE ExtractLinks(_)
ExtractLinks(items) ==
    IF items = << >> THEN << >>
    ELSE LET item == Head(items)
         IN  ( IF item # << >> /\ item[Len(item)].anchor /\ item[Len(item)].href # ""
               THEN << item[Len(item)].href >> ELSE << >> )
                 \o ExtractLinks(Tail(items))

\* navigate to the listing of the tag, let it settle, make the scroll passes,
\* each followed by its delay, then extract
SearchScript(tag) ==
    << ScriptStep("goto", "", TagUrl(tag)), ScriptStep("settle", "", << >>) >>
        \o [ i \in 1..(2 * SearchPasses) |->
               IF i % 2 = 1 THEN ScriptStep("scrollPass", "", << >>)
               ELSE ScriptStep("passDelay", "", << >>) ]
        \o << ScriptStep("extract", "", << >>) >>

\* searchTag(tag): fails at once without a page
CallSearchTag(tag) ==
    /\ Begin("searchTag")
    /\ IF page = 0
       THEN /\ Raise("Browser not initialized.")
            /\ UNCHANGED todo
       ELSE /\ todo' = SearchScript(tag)
            /\ pc' = "gesture_next"
            /\ UNCHANGED result
    /\ UNCHANGED << clientVars, worldVars, clientId, password, params, cookies,
                    gestureRun, scrollVars, console, trace, saved, scrollHistory >>

\* the settling interval and the delay after a pass
SearchDelay ==
    /\ pc = "page_do" /\ gesture \in { "settle", "passDelay" }
    /\ Did(Ev(gesture, page, "", << >>, << >>))
    /\ Continue("gesture_next")
    /\ UNCHANGED << clientVars, worldVars, op, clientId, password, params, cookies,
                    gestureVars, scrollVars, console, historyVars >>

\* a scroll pass: the page scrolls, and the site may render more of the
\* listing
SearchScrollPass ==
    /\ pc = "page_do" /\ gesture = "scrollPass"
    /\ \E n \in browsers[page].shown..Len(browsers[page].doc) :
          browsers' = [ browsers EXCEPT ![page].shown = n ]
    /\ Did(Ev("scrollPass", page, "", << >>, << >>))
    /\ Continue("gesture_next")
    /\ UNCHANGED << clientVars, GestureEngine_instance, pageUrl, pageCookies,
                    navigation, fs,
                    op, clientId, password, params, cookies,
                    gestureVars, scrollVars, console, historyVars >>

\* the extraction from the rendered listing; the event carries what
\* searchTag returns
SearchExtract ==
    /\ pc = "page_do" /\ gesture = "extract"
    /\ LET rendered == SubSeq(browsers[page].doc, 1, browsers[page].shown)
       IN  Did(Ev("extract", page, "", << >>, ExtractLinks(rendered)))
    /\ Continue("gesture_next")
    /\ UNCHANGED << clientVars, worldVars, op, clientId, password, params, cookies,
                    gestureVars, scrollVars, console, historyVars >>

\* an initialized client whose page will show one of the listings, none of
\* it rendered yet
InitSearch ==
    /\ browser = 1 /\ page = 1 /\ headless = TRUE /\ gestureEngine = 1
    /\ GestureEngine_instance = 1
    /\ \E d \in Documents :
          browsers = (1 :> [ headless |-> TRUE, scrollY |-> 0, doc |-> d, shown |-> 0 ])
    /\ pageUrl = URLs.base /\ pageCookies = << >>
    /\ navigation = "none"
    /\ fs = << >>
    /\ op = "none" /\ pc = "idle" /\ result = "none"
    /\ clientId = << >> /\ password = << >> /\ params = "undefined" /\ cookies = Null
    /\ todo = << >> /\ gesture = "" /\ selector = "" /\ text = << >> /\ idx = 0
    /\ typeDelay = [ min |-> TypeDelayMin, max |-> TypeDelayMax ]
    /\ delay = 0 /\ callStart = 0
    /\ scrollAmount = 0 /\ stepDelay = [ min |-> 0, max |-> 0 ]
    /\ now = 0 /\ intervalAt = NoTimer /\ timeoutAt = NoTimer
    /\ pending = << >> /\ ticks = 0 /\ gestureCalls = 0
    /\ console = << >>
    /\ trace = << >>
    /\ fsAtCall = << >> /\ saved = << >> /\ seenTicks = { } /\ issued = 0

NextSearch ==
    \/ \E tag \in Tags : CallSearchTag(tag)
    \/ CallClose
    \/ Close
    \/ Return
    \/ NextGesture
    \/ PageGoto
    \/ SearchDelay
    \/ SearchScrollPass
    \/ SearchExtract

SpecSearch == InitSearch /\ [][NextSearch]_vars

(***************************************************************************)
(* Reading a state.                                                        *)
(***************************************************************************)
\* the states of the authentication state machine, read off the line
\* authenticate logged (client.ts 131, 150, 153)
Authenticated ==
    \E i \in 1..Len(console) :
        console[i] \in { "Session cookies loaded, no need to authenticate again.",
                         "Login successful, session saved." }

Failed == \E i \in 1..Len(console) : console[i] = "Login failed or captcha required."

Happened(act) == \E i \in 1..Len(trace) : trace[i].act = act

\* the store f holds a session record with at least one cookie for id
HadSession(f, id) ==
    LET path == << Paths.sessionBase, hashClientId(id), Paths.cookiesFile >>
    IN  /\ path \in DOMAIN f
        /\ JSONparse(f[path]).ok
        /\ Len(JSONparse(f[path]).val) > 0

NoFile(f, id) ==
    << Paths.sessionBase, hashClientId(id), Paths.cookiesFile >> \notin DOMAIN f

\* a step of the login form: the navigation to the login URL, a keystroke,
\* a click
IsLoginAct(e) ==
    \/ e.act = "goto" /\ e.arg = URLs.login
    \/ e.act = "keyboard.type"
    \/ e.act = "click"

NoLoginActs(t) == \A i \in 1..Len(t) : ~IsLoginAct(t[i])

Step(act, sel, arg) == [ act |-> act, sel |-> sel, arg |-> arg ]

\* the login steps of t, without the page they went to
LoginActs(t) ==
    LET acts == SelectSeq(t, IsLoginAct)
    IN  [ i \in 1..Len(acts) |-> Step(acts[i].act, acts[i].sel, acts[i].arg) ]

Keystrokes(sel, txt) == [ i \in 1..Len(txt) |-> Step("keyboard.type", sel, << txt[i] >>) ]

\* the login steps in the order the fresh login has to take them
FreshLogin(id, pw) ==
    << Step("goto", "", URLs.login) >>
        \o Keystrokes(SelUsername, id)
        \o Keystrokes(SelPassword, pw)
        \o << Step("click", SelSubmit, << >>) >>

(***************************************************************************)
(* C1. Cached-session short-circuit.                                       *)
(***************************************************************************)
\* C1 as stated: when authenticate takes its decision with a saved session
\* record of at least one cookie for the identity and a page URL that is not
\* the login URL, the call ends there, and it has neither navigated to the
\* login URL nor typed nor clicked.
C1_ShortCircuitUnlessAtLoginUrl ==
    [][ ( pc = "auth_decide" /\ HadSession(fsAtCall, clientId) /\ pageUrl # URLs.login )
          => ( pc' = "done" /\ result' = "ok" /\ NoLoginActs(trace') ) ]_vars

\* C1 amended: the same, when the page URL does not contain the login URL.
C1_ShortCircuitUnlessUrlContainsLogin ==
    [][ ( pc = "auth_decide" /\ HadSession(fsAtCall, clientId)
            /\ ~includes(pageUrl, URLs.login) )
          => ( pc' = "done" /\ result' = "ok" /\ NoLoginActs(trace') ) ]_vars

C1_Witness ==
    /\ op = "authenticate" /\ pc = "done" /\ result = "ok"
    /\ HadSession(fsAtCall, clientId)
    /\ pageUrl = URLs.base
    /\ Authenticated
    /\ NoLoginActs(trace)
    /\ Happened("setCookie")

(***************************************************************************)
(* C2. Fresh-login ordering.                                               *)
(***************************************************************************)
\* C2: in an authenticate call for an identity without a session file, the
\* login steps taken so far are always a beginning of: navigate to the login
\* URL, type the identity into the username field character by character,
\* type the secret into the password field, click submit; and a call that
\* returns normally has taken all of them. So submit is never clicked before
\* both fields are typed in full.
C2_FreshLoginOrder ==
    ( op = "authenticate" /\ NoFile(fsAtCall, clientId) )
        => /\ IsPrefix(LoginActs(trace), FreshLogin(clientId, password))
           /\ ( pc = "done" /\ result = "ok"
                  => LoginActs(trace) = FreshLogin(clientId, password) )

C2_Witness ==
    /\ op = "authenticate" /\ NoFile(fsAtCall, clientId)
    /\ pc = "auth_wait_nav"
    /\ Len(clientId) = 2 /\ Len(password) = 2
    /\ LoginActs(trace) = FreshLogin(clientId, password)

(***************************************************************************)
(* C3. A successful login persists the session.                            *)
(***************************************************************************)
\* C3: when authenticate has run the login flow and ends on a URL that no
\* longer contains the login path segment, it has returned normally, it is
\* Authenticated, and the file <sessionBase>/<hash(identity)>/<cookiesFile>
\* holds the cookies of the page; and in every authenticate call a write of
\* the session file comes after the navigation has settled.
C3_LoginPersistsSession ==
    op = "authenticate" =>
        /\ ( pc = "done" /\ Happened("navigated") /\ ~includes(pageUrl, LoginSegment) )
             => LET path == << Paths.sessionBase, hashClientId(clientId),
                               Paths.cookiesFile >>
                IN  /\ result = "ok"
                    /\ Authenticated
                    /\ path \in DOMAIN fs
                    /\ JSONparse(fs[path]) = [ ok |-> TRUE, val |-> pageCookies ]
        /\ \A i \in 1..Len(trace) :
              trace[i].act = "writeFileSync"
                  => \E j \in 1..(i - 1) : trace[j].act = "navigated"
        /\ ( fs # fsAtCall => Happened("writeFileSync") )

C3_Witness ==
    /\ op = "authenticate" /\ pc = "done" /\ result = "ok"
    /\ NoFile(fsAtCall, clientId)
    /\ Happened("navigated") /\ ~includes(pageUrl, LoginSegment)
    /\ Authenticated
    /\ pageCookies = << "ttwid", "sid" >>
    /\ ~NoFile(fs, clientId)

(***************************************************************************)
(* C4. A failed login is not an error and writes nothing.                  *)
(***************************************************************************)
\* C4: when the navigation after submit has settled on a URL that still
\* contains the login path segment, the session store is as it was when the
\* call began, and the call ends normally, in Failed.
C4_FailedLoginWritesNothing ==
    ( op = "authenticate" /\ Happened("navigated") /\ includes(pageUrl, LoginSegment) )
        => /\ fs = fsAtCall
           /\ pc \in { "auth_check", "done" }
           /\ ( pc = "done" => result = "ok" /\ Failed /\ ~Authenticated )

C4_Witness ==
    /\ op = "authenticate" /\ pc = "done" /\ result = "ok"
    /\ Happened("navigated") /\ includes(pageUrl, LoginSegment)
    /\ ~includes(pageUrl, URLs.login)
    /\ Failed
    /\ pageCookies # << >>
    /\ fs = fsAtCall

(***************************************************************************)
(* C5. Save/load round trip with full overwrite.                           *)
(***************************************************************************)
\* C5: every session file parses to exactly the cookies of the latest save
\* to its path, and a load that returns a record returns exactly those
\* cookies, in their order.
C5_SaveLoadRoundTrip ==
    /\ DOMAIN fs = DOMAIN saved
    /\ \A path \in DOMAIN saved :
          JSONparse(fs[path]) = [ ok |-> TRUE, val |-> saved[path] ]
    /\ ( op = "authenticate" /\ pc = "auth_decide" /\ ~NoFile(fs, clientId) )
         => cookies = Some(saved[<< Paths.sessionBase, hashClientId(clientId),
                                    Paths.cookiesFile >>])

\* a load returns the two cookies, in order, of a save that replaced a record
C5_Witness ==
    /\ op = "authenticate" /\ pc = "auth_decide"
    /\ cookies = Some(<< "ttwid", "sid" >>)
    /\ Cardinality(DOMAIN fs) = 2
    /\ \E path \in DOMAIN fs : fs[path] = << "[", "]" >>

(***************************************************************************)
(* C6. A missing session is not an error.                                  *)
(***************************************************************************)
\* C6: in an authenticate call for an identity without a session file, the
\* load yields null and raises nothing, no cookie is injected into the page,
\* no file appears unless a later save writes it, and the call never takes
\* the cached-session exit: when it returns normally it has gone to the
\* login URL.
C6_MissingSessionIsAbsent ==
    ( op = "authenticate" /\ NoFile(fsAtCall, clientId) )
        => /\ cookies = Null
           /\ ~Happened("setCookie")
           /\ result \notin { "SyntaxError", "ENOENT" }
           /\ ( ~Happened("writeFileSync") => fs = fsAtCall )
           /\ ( pc = "auth_decide" => result = "none" )
           /\ ( pc = "done" /\ result = "ok"
                  => \E i \in 1..Len(trace) :
                        trace[i].act = "goto" /\ trace[i].arg = URLs.login )

C6_Witness ==
    /\ op = "authenticate" /\ NoFile(fsAtCall, clientId)
    /\ pc = "gesture_next"
    /\ cookies = Null
    /\ pageCookies # << >>
    /\ \E i \in 1..Len(trace) : trace[i].act = "goto" /\ trace[i].arg = URLs.login

(***************************************************************************)
(* C7. A single live browser.                                              *)
(***************************************************************************)
\* C7: at most one browser launched by the client is open at any time.
C7_SingleLiveBrowser == Cardinality(DOMAIN browsers) <= 1

(***************************************************************************)
(* C8. The engine is bound to the live page.                               *)
(***************************************************************************)
\* C8: once initialize has bound the engine, the engine the client holds is
\* bound to the client's page, and every gesture of the operation in progress
\* went to the page the client held.
C8_EngineBoundToLivePage ==
    ( page # 0 /\ pc \notin { "init_goto", "init_engine" } )
        => /\ gestureEngine = page
           /\ \A i \in 1..Len(trace) :
                 trace[i].act \in { "waitForSelector", "focus", "keyboard.type", "click" }
                     => trace[i].page = page

(***************************************************************************)
(* C9. typeText: wait, focus once, then one insertion and one pause per    *)
(* character.                                                              *)
(***************************************************************************)
\* what the gesture call in progress has done
CallTrace == SubSeq(trace, callStart + 1, Len(trace))

\* k insertions in text order, each followed by its pause
TypedPairs(p, sel, txt, k) ==
    [ j \in 1..(2 * k) |->
        IF j % 2 = 1
        THEN Ev("keyboard.type", p, sel, << txt[(j + 1) \div 2] >>, << >>)
        ELSE Ev("delay", p, sel, << >>, << >>) ]

TypeTextUpTo(p, sel, txt, k) ==
    << Ev("waitForSelector", p, sel, << >>, << >>), Ev("focus", p, sel, << >>, << >>) >>
        \o TypedPairs(p, sel, txt, k)

\* C9: a typeText call waits for the element, focuses it once and then
\* alternates strictly between one single-character insertion, in text order,
\* and one pause; when it returns it has made exactly Len(text) insertions
\* and Len(text) pauses, none for the empty text.
C9_TypeTextPerCharacter ==
    gesture = "typeText" =>
        LET p == gestureEngine
        IN  CASE pc = "type_wait"  -> CallTrace = << >>
              [] pc = "type_focus" ->
                     CallTrace = << Ev("waitForSelector", p, selector, << >>, << >>) >>
              [] pc = "type_char"  ->
                     /\ idx <= Len(text)
                     /\ CallTrace = TypeTextUpTo(p, selector, text, idx - 1)
              [] pc \in { "type_delay", "type_sleep" } ->
                     CallTrace = TypeTextUpTo(p, selector, text, idx - 1)
                         \o << Ev("keyboard.type", p, selector, << text[idx] >>, << >>) >>
              [] pc = "gesture_next" \/ (pc = "done" /\ result = "ok" /\ op = "typeText") ->
                     CallTrace = TypeTextUpTo(p, selector, text, Len(text))
              [] OTHER -> TRUE

C9_Witness ==
    /\ op = "typeText" /\ pc = "done" /\ result = "ok"
    /\ text = << "a", "b", "c" >>
    /\ Len(CallTrace) = 8
    /\ CallTrace[3].arg = << "a" >> /\ CallTrace[4].act = "delay"
    /\ CallTrace[7].arg = << "c" >> /\ CallTrace[8].act = "delay"

(***************************************************************************)
(* C10. scrollPage: the number of ticks, and what a tick does.             *)
(***************************************************************************)
RECURSIVE SumAmounts(_)
SumAmounts(q) == IF q = << >> THEN 0 ELSE Head(q).amount + SumAmounts(Tail(q))

\* every tick that has run in the page has moved it by exactly the amount of
\* its call: the position is the sum of the amounts issued, less those of the
\* ticks still in flight
TicksAdvanceByAmount ==
    gestureEngine \in DOMAIN browsers
        => browsers[gestureEngine].scrollY + SumAmounts(pending) = issued

\* C10 as stated: two scrollPage calls with the same arguments issue the same
\* number of ticks, and each tick advances the position by exactly amount.
C10_SameTicksOnEveryCall ==
    /\ \A a, b \in seenTicks : ( a[1] = b[1] /\ a[2] = b[2] ) => a[3] = b[3]
    /\ TicksAdvanceByAmount

\* C10 amended: a scrollPage call issues at least one tick and at most three
\* (the duration drawn between ScrollBudgetMin and ScrollBudgetMax decides how
\* many), and each tick advances the position by exactly amount.
C10_TicksWithinBudget ==
    /\ \A a \in seenTicks :
          /\ a[3] >= (ScrollBudgetMin \div ScrollIntervalMs) - 1
          /\ a[3] <= ScrollBudgetMax \div ScrollIntervalMs
    /\ ( pc = "scroll_wait" => ticks <= ScrollBudgetMax \div ScrollIntervalMs )
    /\ TicksAdvanceByAmount

\* two calls with the same arguments have issued different numbers of ticks,
\* and all their ticks have run
C10_Witness ==
    /\ op = "scrollPage" /\ pc = "done" /\ result = "ok"
    /\ pending = << >>
    /\ \E a, b \in seenTicks : a[1] = b[1] /\ a[2] = b[2] /\ a[3] # b[3]
    /\ issued > 0
    /\ browsers[gestureEngine].scrollY = issued

(***************************************************************************)
(* C11. click: wait, one click, then a pacing delay.                       *)
(***************************************************************************)
\* C11: a click call has done nothing before the element exists, clicks only
\* after the wait for the element has resolved, and when it returns it has
\* waited for the element, clicked it exactly once and then let a pacing
\* delay elapse.
C11_ClickWaitsClicksPaces ==
    gesture = "click" =>
        LET p == gestureEngine
            waited == Ev("waitForSelector", p, selector, << >>, << >>)
            clicked == Ev("click", p, selector, << >>, << >>)
        IN  CASE pc = "click_wait" -> CallTrace = << >>
              [] pc = "click_do"   -> CallTrace = << waited >>
              [] pc = "gesture_next" \/ (pc = "done" /\ result = "ok" /\ op = "click") ->
                     CallTrace = << waited, clicked, Ev("delay", p, selector, << >>, << >>) >>
              [] OTHER -> TRUE

(***************************************************************************)
(* C12. Precondition errors.                                               *)
(***************************************************************************)
\* C12: when postScheduledVideo is called, or finalizeSession takes its first
\* step, on a client without a page, the call ends at once with the error
\* "Browser not initialized.": nothing was done to a page or a browser,
\* nothing was logged, the session store and the open browsers are untouched;
\* and a call that has ended with this error does nothing more.
C12_PreconditionErrors ==
    [][ /\ ( /\ page = 0
             /\ \/ pc = "idle" /\ op' = "postScheduledVideo"
                \/ pc = "save" /\ op = "finalizeSession" /\ pc' # pc )
           => /\ pc' = "done"
              /\ result' = "Browser not initialized."
              /\ trace' = << >> /\ console' = << >>
              /\ fs' = fs /\ browsers' = browsers /\ todo' = << >>
        /\ ( pc = "done" /\ result = "Browser not initialized." /\ pc' # pc )
           => pc' = "idle" ]_vars

\* postScheduledVideo fails its precondition on a client that was
\* initialized and then closed
C12_Witness ==
    /\ op = "postScheduledVideo" /\ pc = "done"
    /\ result = "Browser not initialized."
    /\ page = 0 /\ GestureEngine_instance # 0
    /\ trace = << >> /\ fs = fsAtCall

(***************************************************************************)
(* C13. A corrupt session file is fatal.                                   *)
(***************************************************************************)
\* the store f holds a session file for id that does not parse
Malformed(f, id) ==
    LET path == << Paths.sessionBase, hashClientId(id), Paths.cookiesFile >>
    IN  path \in DOMAIN f /\ ~JSONparse(f[path]).ok

\* C13: in an authenticate call for an identity whose session file exists
\* and is malformed, the store stays exactly as it was (the file is neither
\* deleted nor rewritten), no cookie is injected, no login step is taken, and
\* the call ends with the parse error.
C13_CorruptSessionIsFatal ==
    ( op = "authenticate" /\ Malformed(fsAtCall, clientId) )
        => /\ fs = fsAtCall
           /\ NoLoginActs(trace)
           /\ ~Happened("setCookie") /\ ~Happened("writeFileSync")
           /\ pc \in { "close", "init_launch", "init_goto", "init_engine", "auth_load",
                       "done" }
           /\ ( pc = "done" => result = "SyntaxError" )

C13_Witness ==
    /\ op = "authenticate" /\ pc = "done" /\ result = "SyntaxError"
    /\ Malformed(fs, clientId)
    /\ fs = TruncatedStore
    /\ Happened("launch") /\ Happened("goto")

(***************************************************************************)
(* C14. authenticate tears down before it creates.                         *)
(***************************************************************************)
\* in the call in progress, the close of a browser comes first and the
\* launch next, and the new page has navigated to the base URL before a
\* cookie is loaded or a login step is taken
TeardownThenCreateInOrder ==
    /\ \A i \in 1..Len(trace) :
          /\ trace[i].act = "browser.close" => i = 1
          /\ trace[i].act = "launch" =>
                 \A j \in 1..(i - 1) : trace[j].act = "browser.close"
          /\ ( trace[i].act = "setCookie" \/ IsLoginAct(trace[i]) ) =>
                 \E j \in 1..(i - 1) :
                     /\ trace[j].act = "goto" /\ trace[j].arg = URLs.base
                     /\ trace[j].page = page
                     /\ \E k \in 1..(j - 1) : trace[k].act = "launch"
    /\ ( pc # "close" => Happened("launch") \/ pc = "init_launch" )

\* C14: in every authenticate call, once the call launches its browser no
\* browser that existed before is still open, and the new page navigates to
\* the base URL before any session cookie is loaded or any login step taken.
C14_TeardownBeforeCreate ==
    op = "authenticate" =>
        /\ TeardownThenCreateInOrder
        /\ ( pc = "init_launch" => DOMAIN browsers = { } )
        /\ ( Happened("launch") => DOMAIN browsers = { browser } )

(***************************************************************************)
(* C15. The publish workflow is a strict gated sequence.                   *)
(***************************************************************************)
\* the steps of the workflow the claim names
IsPublishAct(e) ==
    \/ e.act \in { "goto", "accept", "page.waitForFunction", "keyboard.type",
                   "page.keyboard.type" }
    \/ e.act = "click" /\ e.sel = SelSchedule
    \/ e.act = "page.click" /\ e.sel = SelPost
    \/ e.act = "page.waitForSelector" /\ e.sel = SelModal

PublishActs(t) ==
    LET acts == SelectSeq(t, IsPublishAct)
    IN  [ i \in 1..Len(acts) |-> Step(acts[i].act, acts[i].sel, acts[i].arg) ]

\* navigate to the upload surface, select the file, upload progress at 100%,
\* type the description, select the schedule option, enter the date, click
\* Post, wait for the confirmation modal
PublishOrder(videoPath, description, scheduleDate) ==
    << Step("goto", "", URLs.upload_creator_center),
       Step("accept", "", videoPath),
       Step("page.waitForFunction", SelProgress, << "100%" >>) >>
        \o Keystrokes(SelEditor, description)
        \o << Step("click", SelSchedule, << >>),
              Step("page.keyboard.type", "", scheduleDate),
              Step("page.click", SelPost, << >>),
              Step("page.waitForSelector", SelModal, << >>) >>

\* the steps taken so far are a beginning of the workflow, and a call that
\* has returned normally has taken all of them
PublishStepsInOrder ==
    op = "postScheduledVideo" =>
        \E v \in VideoPaths, d \in Descriptions, sd \in ScheduleDates :
            /\ IsPrefix(PublishActs(trace), PublishOrder(v, d, sd))
            /\ ( pc = "done" /\ result = "ok"
                   => PublishActs(trace) = PublishOrder(v, d, sd) )

\* C15: the steps of postScheduledVideo occur in the order of the workflow,
\* so the description is not typed and Post is not clicked before the upload
\* progress has reached 100%; and a wait that does not resolve never ends the
\* call: the call does not come back with a timeout.
C15_PublishGatedSequence ==
    /\ PublishStepsInOrder
    /\ ( op = "postScheduledVideo" /\ pc = "done" ) => result # "TimeoutError"

(***************************************************************************)
(* C16. toggleHeadless toggles the mode.                                   *)
(***************************************************************************)
\* C16: when toggleHeadless returns, having closed the browser that was live
\* when it was called, the browser that is live now runs in the opposite
\* headless mode. (Two consecutive calls then restore the mode: the browser
\* the second call closes is the one the first call launched.)
C16_ToggleFlipsMode ==
    ( /\ op = "toggleHeadless" /\ pc = "done" /\ result = "ok"
      /\ trace # << >> /\ trace[1].act = "browser.close" )
        => ModeOf(browsers[browser]) # trace[1].arg[1]

(***************************************************************************)
(* C17. searchTag returns the references of the listing in document order. *)
(***************************************************************************)
\* the href at the end of an item: that of the anchor of its last nested
\* child, "" when there is none
TerminalHref(item) ==
    IF item = << >> THEN ""
    ELSE IF item[Len(item)].anchor THEN item[Len(item)].href ELSE ""

NonEmpty(h) == h # ""

\* the non-empty terminal hrefs of the items, in the order of the items
References(items) ==
    SelectSeq([ i \in 1..Len(items) |-> TerminalHref(items[i]) ], NonEmpty)

\* C17: when searchTag returns, it has made all its scroll passes before it
\* extracted, and it returns the non-empty terminal hrefs of the items the
\* listing holds, in document order: k references when all k items have one,
\* nothing for an item without one.
C17_SearchReturnsReferences ==
    ( op = "searchTag" /\ pc = "done" /\ result = "ok" ) =>
        LET rendered == SubSeq(browsers[page].doc, 1, browsers[page].shown)
            last == trace[Len(trace)]
        IN  /\ last.act = "extract"
            /\ last.res = References(rendered)
            /\ ( (\A i \in 1..Len(rendered) : TerminalHref(rendered[i]) # "")
                   => Len(last.res) = Len(rendered) )
            /\ Len(SelectSeq(SubSeq(trace, 1, Len(trace) - 1),
                             LAMBDA e : e.act = "scrollPass")) = SearchPasses
            /\ Len(SelectSeq(trace, LAMBDA e : e.act = "extract")) = 1

\* the scenario of the specification: three items, three references
C17_Witness ==
    /\ op = "searchTag" /\ pc = "done" /\ result = "ok"
    /\ browsers[page].shown = 3
    /\ trace[Len(trace)].res = << "/v/1", "/v/2", "/v/3" >>

(***************************************************************************)
(* C18. The cached-session decision.                                       *)
(***************************************************************************)
\* the store f holds a session record for id, and it is the empty list
EmptySession(f, id) ==
    LET path == << Paths.sessionBase, hashClientId(id), Paths.cookiesFile >>
    IN  path \in DOMAIN f /\ JSONparse(f[path]) = [ ok |-> TRUE, val |-> << >> ]

\* C18: when authenticate takes its decision, it skips the login flow only if
\* a record with at least one cookie was loaded and the page URL is not the
\* login URL; and if no record exists, or the record is the empty list, or
\* the page URL is the login URL, it goes on to the login flow: its next step
\* is the navigation to the login URL, and when it returns normally it has
\* typed the identity and the secret and clicked submit.
C18_DecisionIsConjunction ==
    /\ [][ ( pc = "auth_decide" /\ pc' # pc )
             => /\ ( pc' = "done"
                       => /\ HadSession(fsAtCall, clientId)
                          /\ pageUrl # URLs.login
                          /\ NoLoginActs(trace') )
                /\ ( ( \/ NoFile(fsAtCall, clientId)
                       \/ EmptySession(fsAtCall, clientId)
                       \/ pageUrl = URLs.login )
                       => pc' = "auth_goto_login" ) ]_vars
    /\ [][ ( pc = "auth_goto_login" /\ pc' # pc )
             => trace' = Append(trace, Ev("goto", page, "", URLs.login, << >>)) ]_vars
    /\ []( ( op = "authenticate" /\ pc = "done" /\ result = "ok"
               /\ ~NoLoginActs(trace) )
             => LoginActs(trace) = FreshLogin(clientId, password) )

\* the login flow has run over a record that is the empty list, from a page
\* that was not on the login URL
C18_Witness ==
    /\ op = "authenticate" /\ pc = "done" /\ result = "ok"
    /\ EmptySession(fsAtCall, clientId)
    /\ Happened("setCookie")
    /\ LoginActs(trace) = FreshLogin(clientId, password)
    /\ Len(password) = 2

(***************************************************************************)
(* C19. scrollPage stops when it returns.                                  *)
(***************************************************************************)
\* a scroll tick takes effect in a page: its scroll position moves down
TickLands ==
    \E p \in DOMAIN browsers \cap DOMAIN browsers' :
        browsers'[p].scrollY > browsers[p].scrollY

\* C19: a scroll tick changes a page's scroll position only while a
\* scrollPage call is waiting for its duration to elapse; once the call has
\* returned, whatever the caller does next, no tick of that call lands.
C19_NoTickAfterReturn == [][ pc # "scroll_wait" => ~TickLands ]_vars

(***************************************************************************)
(* C20. Bounds of the pacing delay.                                        *)
(***************************************************************************)
\* C20: every delay waitRandomTime(min, max) has drawn is an integer between
\* min and max, both included, and it is min when min = max; and for every
\* pair min <= max both min and max are delays some draw yields.
C20_DelayWithinBounds ==
    /\ pc = "type_sleep"
         => /\ delay \in typeDelay.min..typeDelay.max
            /\ ( typeDelay.min = typeDelay.max => delay = typeDelay.min )
    /\ ( pc = "scroll_wait" /\ timeoutAt # NoTimer )
         => /\ delay \in ScrollBudgetMin..ScrollBudgetMax
            /\ timeoutAt = delay
    /\ \A p \in Pacings \cup { [ min |-> ScrollBudgetMin, max |-> ScrollBudgetMax ] } :
          /\ \E r \in RandomDraws : RandomDelay(r, p.min, p.max) = p.min
          /\ \E r \in RandomDraws : RandomDelay(r, p.min, p.max) = p.max
          /\ \A r \in RandomDraws : RandomDelay(r, p.min, p.max) \in p.min..p.max

\* a typeText call with the default pacing is pausing for the longest delay
C20_Witness ==
    /\ op = "typeText" /\ pc = "type_sleep"
    /\ typeDelay = [ min |-> TypeDelayMin, max |-> TypeDelayMax ]
    /\ delay = TypeDelayMax

(***************************************************************************)
(* C21. Submit, then wait for the navigation.                              *)
(***************************************************************************)
\* the navigation that the click on submit started has settled on a page
\* whose URL no longer contains the login path segment
SubmitLeftLogin == navigation = "settled" /\ ~includes(pageUrl, LoginSegment)

\* C21: when the click on submit started a navigation that has settled away
\* from the login page, the authenticate call that clicked does not end
\* without having seen it: it ends normally, Authenticated and with the
\* session file holding the cookies of the page, whether the navigation
\* settled before or after the wait of client.ts line 145 was registered.
C21_SubmitThenWaitObservesNavigation ==
    [][ ( op = "authenticate" /\ SubmitLeftLogin /\ pc # "done" /\ pc' = "done" )
            => LET path == getSessionFilePath(clientId)
               IN  /\ result' = "ok"
                   /\ Authenticated'
                   /\ path \in DOMAIN fs'
                   /\ JSONparse(fs'[path]) = [ ok |-> TRUE, val |-> pageCookies' ] ]_vars

====
